---------------------------- MODULE Spec2Model ----------------------------
(***************************************************************************)
(* The accumulate-and-retry transcription server of                        *)
(* src/streaming_based_transcribe/server.js as a state machine.            *)
(*                                                                         *)
(* Node runs one callback at a time, so every action below is one          *)
(* synchronous segment of a handler: from the event that starts it to the  *)
(* next await (or to the handler's end).  Several POST /audio handlers may *)
(* be suspended at an await at the same time.                              *)
(*                                                                         *)
(* The variable server says which of the two transcribing servers of the   *)
(* repository a run is of: the accumulating one above, or the direct one   *)
(* of src/unnamed/part_001, which sends every body to the API as it is.    *)
(*                                                                         *)
(* A chunk is identified by the number of the request that carried it; a   *)
(* buffer is the sequence of the chunks whose bytes it holds, oldest       *)
(* first, and its byte length is the sum of their lengths.                 *)
(***************************************************************************)
EXTENDS Integers, Sequences, FiniteSets

\* ------------------------------------------------------------- bounds
\* Number of POST /audio requests of a run.
MaxReqs == 3

\* Number of POST /audio requests the WAV client sends in a run.
MaxSends == 6

\* Number of samples in an input of createWavFile.
MaxSamples == 3

Reqs == 1..MaxReqs

\* ------------------------------------------------- program constants
\* const MAX_BUFFER_SIZE = 5 * 1024 * 1024
MAX_BUFFER_SIZE == 5242880
\* const MAX_EMPTY_RESPONSES = 3
MAX_EMPTY_RESPONSES == 3
\* the 1000 of `if (currentBuffer.length < 1000)`
MinChunkBytes == 1000
\* the 5 of `if (emptyResponseCount >= 5)` in streaming.html
ClientMaxEmpty == 5

\* Body lengths a request may carry: just below and at the small-chunk
\* threshold, and half the buffer ceiling (two of them make exactly the
\* ceiling, two of them and a third chunk exceed it).
HalfCeiling == MAX_BUFFER_SIZE \div 2
ChunkSizes == {MinChunkBytes - 1, MinChunkBytes, HalfCeiling}

\* previousAudioBuffer = null.  A stored buffer always holds at least one
\* chunk, so the empty sequence is free to stand for null.
Null == << >>

\* Texts the transcription API may put in the "text" field: none (or ""),
\* whitespace only, and a word.
Texts == { << >>, <<" ">>, <<"h", "e", "l", "l", "o">> }

VARIABLES
    previousAudioBuffer,        \* Null or the carried-over buffer
    previousAudioBufferSize,    \* its cached byte length
    consecutiveEmptyResponses,  \* the empty-response counter
    pc,                         \* per request: where its handler stands
    combinedBuffer,             \* per in-flight request: its combinedBuffer
    files,                      \* per request: its temporary files on disk
    calls,                      \* per in-flight request: calls issued
    results,                    \* per in-flight request: their outcomes
    last,                       \* the handle call that has just returned
    server,                     \* which server program is running
    call,                       \* a function call looked at on its own
    process,                    \* the server process: its life cycle
    apiKey,                     \* process.env.OPENAI_API_KEY
    client                      \* the WAV client of streaming.html

vars == << previousAudioBuffer, previousAudioBufferSize,
           consecutiveEmptyResponses, pc, combinedBuffer, files, calls,
           results, last, server, call, process, apiKey,
           client >>

\* What no step of a request handler touches.
outside == << server, call, process, apiKey, client >>

accState == << previousAudioBuffer, previousAudioBufferSize,
               consecutiveEmptyResponses >>

handlerVars == << pc, combinedBuffer, files, calls, results >>

\* Everything the request handlers of the two servers read or write.
serverVars == << accState, handlerVars, last, server >>

\* ------------------------------------------------------------ helpers
\* The chunk of request r: n bytes.
Chunk(r, n) == [id |-> r, len |-> n]

RECURSIVE ByteLength(_)
\* Buffer.length of a buffer made of the chunks of buf.
ByteLength(buf) ==
    IF buf = << >> THEN 0 ELSE Head(buf).len + ByteLength(Tail(buf))

RECURSIVE TrimStart(_)
TrimStart(t) ==
    IF t # << >> /\ Head(t) = " " THEN TrimStart(Tail(t)) ELSE t

RECURSIVE TrimEnd(_)
TrimEnd(t) ==
    IF t # << >> /\ t[Len(t)] = " " THEN TrimEnd(SubSeq(t, 1, Len(t) - 1))
    ELSE t

\* String.prototype.trim
Trim(t) == TrimEnd(TrimStart(t))

\* `transcript && transcript.trim() !== ''`
HasTranscript(t) == t # << >> /\ Trim(t) # << >>

NoRes == [status |-> 0, success |-> FALSE, transcript |-> << >>, error |-> ""]

\* res.writeHead(200); res.end({success: true, transcript})
OkResponse(t) ==
    [status |-> 200, success |-> TRUE, transcript |-> t, error |-> ""]

\* res.writeHead(500); res.end({success: false, error: error.message})
ErrorResponse(msg) ==
    [status |-> 500, success |-> FALSE, transcript |-> << >>, error |-> msg]

\* What `await execAsync(curlCommand)` may come back with: the command
\* failed, printed nothing, printed something that is not JSON, or printed a
\* JSON object whose text field is raw.text (<< >>: absent or empty).
CurlOutcomes ==
    [kind : {"exec_error", "empty_stdout", "invalid_json"}, text : {<< >>}]
        \cup [kind : {"json"}, text : Texts]

\* transcribeWithCurl after its await: throws unless stdout parsed as JSON,
\* otherwise returns `response.text || ''`.
TranscribeWithCurl(raw) ==
    IF raw.kind = "json"
    THEN [threw |-> FALSE, text |-> raw.text,
          error |-> ""]
    ELSE [threw |-> TRUE, text |-> << >>,
          error |-> "Failed to transcribe audio"]

\* What the ffmpeg run may leave: it failed (with or without an output file
\* on disk), it exited 0 without creating the output, it created an empty
\* output, or it created a non-empty one.
ConvertOutcomes ==
    {"exec_error", "exec_error_file", "no_file", "empty_file", "ok"}

\* Mutant of SkipChunk: the threshold one byte too low.
SkipChunk_Low(n) == n < MinChunkBytes - 1

\* `if (currentBuffer.length < 1000)`
SkipChunk(n) == n < MinChunkBytes

\* Mutant of Combine: the current chunk first.
Combine_Swapped(prev, cur) == IF prev # Null THEN cur \o prev ELSE cur

\* The combine step: previous audio first, then the current chunk.
Combine(prev, cur) == IF prev # Null THEN prev \o cur ELSE cur

Acc(buf, size, count) == [buf |-> buf, size |-> size, count |-> count]

\* The "valid transcript" branch after the MP3 transcription.
OnTranscriptMp3(count) == Acc(Null, 0, 0)

\* Mutant of OnTranscriptWebm: the counter is not reset.
OnTranscriptWebm_KeepCount(count) == Acc(Null, 0, count)

\* The "valid transcript" branch of the WebM fallback.
OnTranscriptWebm(count) == Acc(Null, 0, 0)

\* Mutant of OnEmptyMp3: the give-up test is > instead of >=.
OnEmptyMp3_Late(count, combined, combinedLen) ==
    LET c == count + 1 IN
    IF c > MAX_EMPTY_RESPONSES THEN Acc(Null, 0, 0)
    ELSE IF combinedLen < MAX_BUFFER_SIZE THEN Acc(combined, combinedLen, c)
    ELSE Acc(Null, 0, c)

\* The "no transcript" branch after the MP3 transcription.
OnEmptyMp3(count, combined, combinedLen) ==
    LET c == count + 1 IN
    IF c >= MAX_EMPTY_RESPONSES THEN Acc(Null, 0, 0)
    ELSE IF combinedLen < MAX_BUFFER_SIZE THEN Acc(combined, combinedLen, c)
    ELSE Acc(Null, 0, c)

\* Mutant of OnEmptyWebm: the give-up test is > instead of >=.
OnEmptyWebm_Late(count, combined, combinedLen) ==
    LET c == count + 1 IN
    IF c > MAX_EMPTY_RESPONSES THEN Acc(Null, 0, 0)
    ELSE IF combinedLen < MAX_BUFFER_SIZE THEN Acc(combined, combinedLen, c)
    ELSE Acc(Null, 0, c)

\* Mutant of OnEmptyWebm: the ceiling test is <= instead of <.
OnEmptyWebm_Le(count, combined, combinedLen) ==
    LET c == count + 1 IN
    IF c >= MAX_EMPTY_RESPONSES THEN Acc(Null, 0, 0)
    ELSE IF combinedLen <= MAX_BUFFER_SIZE THEN Acc(combined, combinedLen, c)
    ELSE Acc(Null, 0, c)

\* Mutant of OnEmptyWebm: giving up resets the counter but keeps the audio.
OnEmptyWebm_KeepBuf(count, combined, combinedLen) ==
    LET c == count + 1 IN
    IF c >= MAX_EMPTY_RESPONSES THEN Acc(combined, combinedLen, 0)
    ELSE IF combinedLen < MAX_BUFFER_SIZE THEN Acc(combined, combinedLen, c)
    ELSE Acc(Null, 0, c)

\* The "no transcript" branch of the WebM fallback.
OnEmptyWebm(count, combined, combinedLen) ==
    LET c == count + 1 IN
    IF c >= MAX_EMPTY_RESPONSES THEN Acc(Null, 0, 0)
    ELSE IF combinedLen < MAX_BUFFER_SIZE THEN Acc(combined, combinedLen, c)
    ELSE Acc(Null, 0, c)

\* Mutant of OnError: the cached size is not reset with the buffer.
OnError_KeepSize(count) == Acc(Null, previousAudioBufferSize, count)

\* The outer catch: the buffer is reset, the counter is left alone.
OnError(count) == Acc(Null, 0, count)

\* Mutant of OnReset: the counter is not reset.
OnReset_KeepCount(count) == Acc(Null, 0, count)

\* The POST /reset handler.
OnReset(count) == Acc(Null, 0, 0)

SetAcc(a) ==
    /\ previousAudioBuffer' = a.buf
    /\ previousAudioBufferSize' = a.size
    /\ consecutiveEmptyResponses' = a.count

\* The cleanup after the inner try/catch: both temporary files are unlinked.
Cleanup(fs) == fs \ {"webm", "mp3"}

\* The accumulator as a value.
AccNow ==
    Acc(previousAudioBuffer, previousAudioBufferSize,
        consecutiveEmptyResponses)

\* The last step was neither the end of a handle call nor a reset.
NoLast ==
    [op |-> "none", req |-> 0, len |-> 0, combined |-> << >>, res |-> NoRes,
     calls |-> << >>, results |-> << >>, before |-> Acc(Null, 0, 0)]

\* The last step ended the handle call of request r (body length n) with
\* response rs; before it the accumulator was AccNow.
Returned(r, n, combined, rs, cs, rr) ==
    [op |-> "audio", req |-> r, len |-> n, combined |-> combined,
     res |-> rs, calls |-> cs, results |-> rr, before |-> AccNow]

\* The last step was a reset; before it the accumulator was AccNow.
WasReset == [NoLast EXCEPT !.op = "reset", !.before = AccNow]

\* The WAV client after its script has run: nothing sent, nothing under
\* way.
ClientIdle ==
    [isProcessing |-> FALSE, emptyResponseCount |-> 0, pc |-> "idle",
     inFlight |-> 0, sent |-> 0, status |-> "Ready"]

\* No function call is being looked at on its own.
NoCall == [fn |-> "none", arg |-> << >>, ret |-> << >>]

\* ------------------------------------------------------------- Init
Init ==
    /\ previousAudioBuffer = Null
    /\ previousAudioBufferSize = 0
    /\ consecutiveEmptyResponses = 0
    /\ pc = [r \in Reqs |-> "new"]
    /\ combinedBuffer = [r \in Reqs |-> << >>]
    /\ files = [r \in Reqs |-> {}]
    /\ calls = [r \in Reqs |-> << >>]
    /\ results = [r \in Reqs |-> << >>]
    /\ last = NoLast
    /\ server = "accumulating"
    /\ call = NoCall
    /\ process = "listening"
    /\ apiKey = "sk-key"
    /\ client = ClientIdle

\* ---------------------------------------------------------- actions
\* Mutant of Finish: the handler ends without writing its response.
Finish_NoResponse(r, rs, cs, rr) ==
    /\ pc' = [pc EXCEPT ![r] = "done"]
    /\ last' = NoLast
    /\ combinedBuffer' = [combinedBuffer EXCEPT ![r] = << >>]
    /\ calls' = [calls EXCEPT ![r] = << >>]
    /\ results' = [results EXCEPT ![r] = << >>]

\* The handler of request r ends: its locals are gone, its response rs and
\* its call log are what the run shows of it.
Finish(r, rs, cs, rr) ==
    /\ pc' = [pc EXCEPT ![r] = "done"]
    /\ last' = Returned(r, combinedBuffer[r][Len(combinedBuffer[r])].len, combinedBuffer[r],
                        rs, cs, rr)
    /\ combinedBuffer' = [combinedBuffer EXCEPT ![r] = << >>]
    /\ calls' = [calls EXCEPT ![r] = << >>]
    /\ results' = [results EXCEPT ![r] = << >>]

\* req.on('end') up to its first await: the body of request r, n bytes
\* long, has arrived.  A small chunk is answered at once; otherwise the
\* chunk is combined with the carried-over buffer, written to the .webm
\* file, and convertToMp3 runs up to `await execAsync(ffmpegCommand)`.
AudioEnd(r, n) ==
    /\ server = "accumulating"
    /\ UNCHANGED outside
    /\ pc[r] = "new"
    /\ \A q \in Reqs : q < r => pc[q] # "new"
    /\ IF SkipChunk(n)
       THEN /\ pc' = [pc EXCEPT ![r] = "done"]
            /\ last' = Returned(r, n, << >>, OkResponse(<< >>), << >>, << >>)
            /\ UNCHANGED << combinedBuffer, files, calls >>
       ELSE /\ combinedBuffer' =
                  [combinedBuffer EXCEPT
                      ![r] = Combine(previousAudioBuffer, << Chunk(r, n) >>)]
            /\ files' = [files EXCEPT ![r] = {"webm"}]
            /\ calls' = [calls EXCEPT ![r] = << "convert" >>]
            /\ pc' = [pc EXCEPT ![r] = "convert"]
            /\ last' = NoLast
    /\ UNCHANGED << accState, results >>

\* Mutant of ConvertDone: no catch (conversionError); a failed conversion
\* reaches the outer catch and is answered as an error.
ConvertDone_NoFallback(r, out) ==
    /\ pc[r] = "convert"
    /\ UNCHANGED outside
    /\ IF out = "ok"
       THEN /\ files' = [files EXCEPT ![r] = @ \cup {"mp3"}]
            /\ results' = [results EXCEPT ![r] = Append(@, "ok")]
            /\ calls' = [calls EXCEPT ![r] = Append(@, "transcribe_mp3")]
            /\ pc' = [pc EXCEPT ![r] = "curl_mp3"]
            /\ last' = NoLast
            /\ UNCHANGED << accState, combinedBuffer >>
       ELSE /\ SetAcc(OnError(consecutiveEmptyResponses))
            /\ Finish(r, ErrorResponse("Failed to convert audio to MP3"),
                      calls[r], Append(results[r], "failed"))
            /\ UNCHANGED files

\* Mutant of ConvertDone: the converted file is ignored and the .webm file
\* is transcribed whatever the conversion did.
ConvertDone_SkipMp3(r, out) ==
    /\ pc[r] = "convert"
    /\ UNCHANGED outside
    /\ files' = [files EXCEPT
          ![r] = IF out \in {"ok", "empty_file", "exec_error_file"}
                 THEN @ \cup {"mp3"} ELSE @]
    /\ results' = [results EXCEPT
          ![r] = Append(@, IF out = "ok" THEN "ok" ELSE "failed")]
    /\ calls' = [calls EXCEPT ![r] = Append(@, "transcribe_webm")]
    /\ pc' = [pc EXCEPT ![r] = "curl_webm"]
    /\ last' = NoLast
    /\ UNCHANGED << accState, combinedBuffer >>

\* The continuation of `await convertToMp3(webmFile, mp3File)`.  With a
\* non-empty mp3 file, transcribeWithCurl(mp3File) runs up to its await; on
\* every other outcome an error is thrown inside the inner try, caught by
\* catch (conversionError), and transcribeWithCurl(webmFile) runs up to its
\* await.
ConvertDone(r, out) ==
    /\ pc[r] = "convert"
    /\ UNCHANGED outside
    /\ files' = [files EXCEPT
          ![r] = IF out \in {"ok", "empty_file", "exec_error_file"}
                 THEN @ \cup {"mp3"} ELSE @]
    /\ IF out = "ok"
       THEN /\ results' = [results EXCEPT ![r] = Append(@, "ok")]
            /\ calls' = [calls EXCEPT ![r] = Append(@, "transcribe_mp3")]
            /\ pc' = [pc EXCEPT ![r] = "curl_mp3"]
       ELSE /\ results' = [results EXCEPT ![r] = Append(@, "failed")]
            /\ calls' = [calls EXCEPT ![r] = Append(@, "transcribe_webm")]
            /\ pc' = [pc EXCEPT ![r] = "curl_webm"]
    /\ last' = NoLast
    /\ UNCHANGED << accState, combinedBuffer >>

\* Mutant of CurlMp3Done: a failed transcription of the .mp3 file is tried
\* again instead of falling back to the .webm file.
CurlMp3Done_Retry(r, raw) ==
    LET t == TranscribeWithCurl(raw)
        n == ByteLength(combinedBuffer[r])
    IN
    /\ pc[r] = "curl_mp3"
    /\ UNCHANGED outside
    /\ IF t.threw
       THEN /\ results' = [results EXCEPT ![r] = Append(@, "threw")]
            /\ calls' = [calls EXCEPT ![r] = Append(@, "transcribe_mp3")]
            /\ last' = NoLast
            /\ UNCHANGED << accState, pc, combinedBuffer, files >>
       ELSE /\ IF HasTranscript(t.text)
               THEN /\ SetAcc(OnTranscriptMp3(consecutiveEmptyResponses))
                    /\ Finish(r, OkResponse(t.text), calls[r],
                              Append(results[r], "text"))
               ELSE /\ SetAcc(OnEmptyMp3(consecutiveEmptyResponses,
                                         combinedBuffer[r], n))
                    /\ Finish(r, OkResponse(<< >>), calls[r],
                              Append(results[r], "empty"))
            /\ files' = [files EXCEPT ![r] = Cleanup(@)]

\* The continuation of `await transcribeWithCurl(mp3File)`.
CurlMp3Done(r, raw) ==
    LET t == TranscribeWithCurl(raw)
        n == ByteLength(combinedBuffer[r])
    IN
    /\ pc[r] = "curl_mp3"
    /\ UNCHANGED outside
    /\ IF t.threw
       THEN \* caught by catch (conversionError): the WebM fallback starts
            /\ results' = [results EXCEPT ![r] = Append(@, "threw")]
            /\ calls' = [calls EXCEPT ![r] = Append(@, "transcribe_webm")]
            /\ pc' = [pc EXCEPT ![r] = "curl_webm"]
            /\ last' = NoLast
            /\ UNCHANGED << accState, combinedBuffer, files >>
       ELSE /\ IF HasTranscript(t.text)
               THEN /\ SetAcc(OnTranscriptMp3(consecutiveEmptyResponses))
                    /\ Finish(r, OkResponse(t.text), calls[r],
                              Append(results[r], "text"))
               ELSE /\ SetAcc(OnEmptyMp3(consecutiveEmptyResponses,
                                         combinedBuffer[r], n))
                    /\ Finish(r, OkResponse(<< >>), calls[r],
                              Append(results[r], "empty"))
            /\ files' = [files EXCEPT ![r] = Cleanup(@)]

\* The continuation of `await transcribeWithCurl(webmFile)` in
\* catch (conversionError).  An error thrown here reaches the outer catch,
\* which skips the cleanup.
CurlWebmDone(r, raw) ==
    LET t == TranscribeWithCurl(raw)
        n == ByteLength(combinedBuffer[r])
    IN
    /\ pc[r] = "curl_webm"
    /\ UNCHANGED outside
    /\ IF t.threw
       THEN /\ SetAcc(OnError(consecutiveEmptyResponses))
            /\ Finish(r, ErrorResponse(t.error), calls[r],
                      Append(results[r], "threw"))
            /\ UNCHANGED files
       ELSE /\ IF HasTranscript(t.text)
               THEN /\ SetAcc(OnTranscriptWebm(consecutiveEmptyResponses))
                    /\ Finish(r, OkResponse(t.text), calls[r],
                              Append(results[r], "text"))
               ELSE /\ SetAcc(OnEmptyWebm(consecutiveEmptyResponses,
                                          combinedBuffer[r], n))
                    /\ Finish(r, OkResponse(<< >>), calls[r],
                              Append(results[r], "empty"))
            /\ files' = [files EXCEPT ![r] = Cleanup(@)]

\* POST /reset: synchronous, answered at once.
Reset ==
    /\ server = "accumulating"
    /\ UNCHANGED outside
    /\ SetAcc(OnReset(consecutiveEmptyResponses))
    /\ last' = WasReset
    /\ UNCHANGED handlerVars

Next ==
    \/ \E r \in Reqs, n \in ChunkSizes : AudioEnd(r, n)
    \/ \E r \in Reqs, out \in ConvertOutcomes : ConvertDone(r, out)
    \/ \E r \in Reqs, raw \in CurlOutcomes : CurlMp3Done(r, raw)
    \/ \E r \in Reqs, raw \in CurlOutcomes : CurlWebmDone(r, raw)
    \/ Reset

Spec == Init /\ [][Next]_vars

\* The same handlers driven by a client that keeps to one call at a time:
\* a request is sent only when no handle call is in flight.
Idle == \A q \in Reqs : pc[q] \in {"new", "done"}

SeqNext ==
    \/ \E r \in Reqs, n \in ChunkSizes : Idle /\ AudioEnd(r, n)
    \/ \E r \in Reqs, out \in ConvertOutcomes : ConvertDone(r, out)
    \/ \E r \in Reqs, raw \in CurlOutcomes : CurlMp3Done(r, raw)
    \/ \E r \in Reqs, raw \in CurlOutcomes : CurlWebmDone(r, raw)
    \/ Idle /\ Reset

SeqSpec == Init /\ [][SeqNext]_vars

\* ------------------------------------------------ the direct server
\* src/unnamed/part_001: every POST /audio body is sent to the API as it
\* is; there is no accumulator, no size threshold and no /reset route.

\* The placeholder of `response.data.text || 'No transcription available'`.
NoTranscription == << "No transcription available" >>

\* What `await axios.post(...)` may come back with: it rejects (network
\* error, non-2xx status), or it resolves with a body whose text field is
\* raw.text (<< >>: absent or empty).
AxiosOutcomes ==
    [kind : {"rejected"}, text : {<< >>}] \cup [kind : {"resolved"}, text : Texts]

\* Mutant of TranscribeAudio: `response.data.text` without the placeholder.
TranscribeAudio_NoPlaceholder(raw) ==
    IF raw.kind = "resolved"
    THEN [threw |-> FALSE, text |-> raw.text, error |-> ""]
    ELSE [threw |-> TRUE, text |-> << >>, error |-> "Request failed"]

\* transcribeAudio after its await: the rejection is logged and rethrown,
\* otherwise `response.data.text || 'No transcription available'` is
\* returned.
TranscribeAudio(raw) ==
    IF raw.kind = "resolved"
    THEN [threw |-> FALSE,
          text |-> IF raw.text # << >> THEN raw.text ELSE NoTranscription,
          error |-> ""]
    ELSE [threw |-> TRUE, text |-> << >>, error |-> "Request failed"]

DirectInit ==
    /\ previousAudioBuffer = Null
    /\ previousAudioBufferSize = 0
    /\ consecutiveEmptyResponses = 0
    /\ pc = [r \in Reqs |-> "new"]
    /\ combinedBuffer = [r \in Reqs |-> << >>]
    /\ files = [r \in Reqs |-> {}]
    /\ calls = [r \in Reqs |-> << >>]
    /\ results = [r \in Reqs |-> << >>]
    /\ last = NoLast
    /\ server = "direct"
    /\ call = NoCall
    /\ process = "listening"
    /\ apiKey = "sk-key"
    /\ client = ClientIdle

\* req.on('end') of the direct server up to the await inside
\* transcribeAudio: the body is written to the temporary file and posted.
DirectEnd(r, n) ==
    /\ server = "direct"
    /\ UNCHANGED outside
    /\ pc[r] = "new"
    /\ \A q \in Reqs : q < r => pc[q] # "new"
    /\ combinedBuffer' = [combinedBuffer EXCEPT ![r] = << Chunk(r, n) >>]
    /\ files' = [files EXCEPT ![r] = {"temp_audio"}]
    /\ calls' = [calls EXCEPT ![r] = << "transcribe" >>]
    /\ pc' = [pc EXCEPT ![r] = "axios"]
    /\ last' = NoLast
    /\ UNCHANGED << accState, results >>

\* The continuation of `await axios.post(...)`: on success the temporary
\* file is unlinked and the transcript answered with status 200; on a
\* rejection the catch of the handler answers 500 and the file stays.
AxiosDone(r, raw) ==
    LET t == TranscribeAudio(raw) IN
    /\ pc[r] = "axios"
    /\ UNCHANGED << outside, accState >>
    /\ IF t.threw
       THEN /\ Finish(r, ErrorResponse(t.error), calls[r], << "threw" >>)
            /\ UNCHANGED files
       ELSE /\ Finish(r, OkResponse(t.text), calls[r],
                      << IF raw.text = << >> THEN "empty" ELSE "text" >>)
            /\ files' = [files EXCEPT ![r] = @ \ {"temp_audio"}]

DirectNext ==
    \/ \E r \in Reqs, n \in ChunkSizes : DirectEnd(r, n)
    \/ \E r \in Reqs, raw \in AxiosOutcomes : AxiosDone(r, raw)

DirectSpec == DirectInit /\ [][DirectNext]_vars

\* ---------------------------------------------------- either server
BothInit == Init \/ DirectInit

BothNext ==
    \/ \E r \in Reqs, n \in ChunkSizes : AudioEnd(r, n)
    \/ \E r \in Reqs, out \in ConvertOutcomes : ConvertDone(r, out)
    \/ \E r \in Reqs, raw \in CurlOutcomes : CurlMp3Done(r, raw)
    \/ \E r \in Reqs, raw \in CurlOutcomes : CurlWebmDone(r, raw)
    \/ Reset
    \/ \E r \in Reqs, n \in ChunkSizes : DirectEnd(r, n)
    \/ \E r \in Reqs, raw \in AxiosOutcomes : AxiosDone(r, raw)

BothSpec == BothInit /\ [][BothNext]_vars

\* A collaborator call of request r returns or fails: the continuation of
\* the await the handler is suspended at.
CallReturns(r) ==
    \/ \E out \in ConvertOutcomes : ConvertDone(r, out)
    \/ \E raw \in CurlOutcomes : CurlMp3Done(r, raw)
    \/ \E raw \in CurlOutcomes : CurlWebmDone(r, raw)
    \/ \E raw \in AxiosOutcomes : AxiosDone(r, raw)

\* Either server, with every collaborator call returning or failing in
\* the end.
FairBothSpec == BothSpec /\ \A r \in Reqs : WF_vars(CallReturns(r))

\* ------------------------------------------ the other HTTP requests
\* Request lines the accumulating server may receive.
Methods == {"OPTIONS", "GET", "POST", "PUT"}
Urls == {"/", "/index.html", "/audio", "/reset", "/favicon.ico"}

\* Mutant of Route: the method of a /reset request is not looked at.
Route_AnyMethodReset(m, u) ==
    IF m = "OPTIONS" THEN "options"
    ELSE IF m = "POST" /\ u = "/audio" THEN "audio"
    ELSE IF u = "/reset" THEN "reset"
    ELSE IF m = "GET" /\ u \in {"/", "/index.html"} THEN "page"
    ELSE "notfound"

\* The chain of ifs of the request listener: which branch answers the
\* request with method m and URL u.
Route(m, u) ==
    IF m = "OPTIONS" THEN "options"
    ELSE IF m = "POST" /\ u = "/audio" THEN "audio"
    ELSE IF m = "POST" /\ u = "/reset" THEN "reset"
    ELSE IF m = "GET" /\ u \in {"/", "/index.html"} THEN "page"
    ELSE "notfound"

\* The statuses a branch other than /audio and /reset may answer: 200 to
\* OPTIONS, 200 or (streaming.html unreadable) 500 for the page, 404 for
\* everything else.
OtherStatuses(branch) ==
    CASE branch = "options" -> {200}
      [] branch = "page" -> {200, 500}
      [] branch = "notfound" -> {404}

\* The last step answered a request that is neither /audio nor /reset.
WasOther(status) ==
    [NoLast EXCEPT !.op = "other", !.before = AccNow,
                   !.res = [NoRes EXCEPT !.status = status]]

\* A request answered by the OPTIONS branch, the page branch (the
\* fs.readFile callback included) or the 404 branch.
OtherRequest(m, u) ==
    /\ server = "accumulating"
    /\ Route(m, u) \in {"options", "page", "notfound"}
    /\ \E status \in OtherStatuses(Route(m, u)) : last' = WasOther(status)
    /\ UNCHANGED << outside, accState, handlerVars >>

\* The accumulating server with every request line it may receive: the
\* POST /audio and POST /reset requests of a client that keeps to one call
\* at a time (see SeqNext), and any other request at any time, also while
\* a handle call is suspended.
HttpNext ==
    \/ \E m \in Methods, u \in Urls, r \in Reqs, n \in ChunkSizes :
           Route(m, u) = "audio" /\ Idle /\ AudioEnd(r, n)
    \/ \E r \in Reqs, out \in ConvertOutcomes : ConvertDone(r, out)
    \/ \E r \in Reqs, raw \in CurlOutcomes : CurlMp3Done(r, raw)
    \/ \E r \in Reqs, raw \in CurlOutcomes : CurlWebmDone(r, raw)
    \/ \E m \in Methods, u \in Urls : Route(m, u) = "reset" /\ Idle /\ Reset
    \/ \E m \in Methods, u \in Urls : OtherRequest(m, u)

HttpSpec == Init /\ [][HttpNext]_vars

\* ---------------------------------------------------------- startup
\* Values process.env.OPENAI_API_KEY may have when the process starts:
\* not set, set to the empty string, set to a key.
Undefined == "undefined"
KeyValues == {Undefined, "", "sk-key"}

\* Mutant of KeyIsFalsy: only the empty string is refused.
KeyIsFalsy_OnlyEmpty(key) == key = ""

\* `!OPENAI_API_KEY`
KeyIsFalsy(key) == key \in {Undefined, ""}

\* Either server at the start of its script, before the key is read.
StartInit ==
    /\ previousAudioBuffer = Null
    /\ previousAudioBufferSize = 0
    /\ consecutiveEmptyResponses = 0
    /\ pc = [r \in Reqs |-> "new"]
    /\ combinedBuffer = [r \in Reqs |-> << >>]
    /\ files = [r \in Reqs |-> {}]
    /\ calls = [r \in Reqs |-> << >>]
    /\ results = [r \in Reqs |-> << >>]
    /\ last = NoLast
    /\ server \in {"accumulating", "direct"}
    /\ call = NoCall
    /\ process = "starting"
    /\ apiKey \in KeyValues
    /\ client = ClientIdle

\* The script runs from its first line to server.listen: with a falsy key
\* it logs and calls process.exit(1), otherwise the server listens.
Boot ==
    /\ process = "starting"
    /\ process' = IF KeyIsFalsy(apiKey) THEN "exited" ELSE "listening"
    /\ UNCHANGED << serverVars, call, apiKey, client >>

\* Requests reach the handlers of a listening process only; they come
\* from a client that keeps to one call at a time.
Accepting == process = "listening" /\ Idle

StartNext ==
    \/ Boot
    \/ \E r \in Reqs, n \in ChunkSizes : Accepting /\ AudioEnd(r, n)
    \/ \E r \in Reqs, out \in ConvertOutcomes : ConvertDone(r, out)
    \/ \E r \in Reqs, raw \in CurlOutcomes : CurlMp3Done(r, raw)
    \/ \E r \in Reqs, raw \in CurlOutcomes : CurlWebmDone(r, raw)
    \/ Accepting /\ Reset
    \/ \E r \in Reqs, n \in ChunkSizes : Accepting /\ DirectEnd(r, n)
    \/ \E r \in Reqs, raw \in AxiosOutcomes : AxiosDone(r, raw)

StartSpec == StartInit /\ [][StartNext]_vars

\* ------------------------------------------------------ the WAV client
\* sendAudioChunk of streaming.html, one action per synchronous segment.
\* The server is whatever answers the fetches.

\* Mutant of Finally: the flag is not cleared.
Finally_KeepFlag(c, status) == [c EXCEPT !.pc = "idle", !.status = status]

\* `finally { isProcessing = false; }`, reached from every path through the
\* try block; status is the last text updateStatus has shown.
Finally(c, status) ==
    [c EXCEPT !.isProcessing = FALSE, !.pc = "idle", !.status = status]

\* sendAudioChunk(audioBlob) up to `await fetch(SERVER_URL, ...)`: nothing
\* happens when a chunk is being processed or the blob is too small,
\* otherwise the flag is set and the request goes out.
SendAudioChunk(tooSmall) ==
    /\ client.sent < MaxSends
    /\ IF client.isProcessing \/ tooSmall
       THEN client' = client
       ELSE client' = [client EXCEPT !.isProcessing = TRUE,
                                     !.status = "Transcribing chunk",
                                     !.inFlight = @ + 1,
                                     !.sent = @ + 1,
                                     !.pc = "fetch"]
    /\ UNCHANGED << serverVars, call, process, apiKey >>

\* The continuation of `await fetch(SERVER_URL, ...)`: the request has
\* settled with a 2xx response, another response, or a rejection.
FetchSettled(outcome) ==
    /\ client.pc = "fetch"
    /\ LET c == [client EXCEPT !.inFlight = @ - 1] IN
       client' =
           CASE outcome = "ok" -> [c EXCEPT !.pc = "json"]
             [] outcome = "http_error" -> [c EXCEPT !.pc = "text"]
             [] outcome = "rejected" -> Finally(c, "Error")
    /\ UNCHANGED << serverVars, call, process, apiKey >>

\* The continuation of `await response.json()`.
JsonDone(result) ==
    /\ client.pc = "json"
    /\ client' =
           CASE result = "transcript" ->
                    Finally([client EXCEPT !.emptyResponseCount = 0],
                            "Transcription received")
             [] result = "empty" ->
                    LET c == [client EXCEPT !.emptyResponseCount = @ + 1] IN
                    IF c.emptyResponseCount >= ClientMaxEmpty
                    THEN [c EXCEPT !.pc = "reset",
                                   !.status = "Resetting audio buffer..."]
                    ELSE Finally(c, "No transcription received")
             [] result = "rejected" -> Finally(client, "Error")
    /\ UNCHANGED << serverVars, call, process, apiKey >>

\* The continuation of `await response.text()`.
TextDone(outcome) ==
    /\ client.pc = "text"
    /\ client' = Finally(client, "Error")
    /\ UNCHANGED << serverVars, call, process, apiKey >>

\* The continuation of `await resetBuffer()`: resetBuffer catches whatever
\* its fetch throws and returns.
ResetBufferDone(outcome) ==
    /\ client.pc = "reset"
    /\ client' =
           Finally([client EXCEPT !.emptyResponseCount = 0],
                   CASE outcome = "ok" -> "Audio buffer reset"
                     [] outcome = "http_error" -> "Failed to reset buffer"
                     [] outcome = "rejected" -> "Error")
    /\ UNCHANGED << serverVars, call, process, apiKey >>

FetchOutcomes == {"ok", "http_error", "rejected"}

\* An await of the client settles.
ClientSettles ==
    \/ \E outcome \in FetchOutcomes : FetchSettled(outcome)
    \/ \E result \in {"transcript", "empty", "rejected"} : JsonDone(result)
    \/ \E outcome \in {"ok", "rejected"} : TextDone(outcome)
    \/ \E outcome \in FetchOutcomes : ResetBufferDone(outcome)

ClientNext ==
    \/ \E tooSmall \in BOOLEAN : SendAudioChunk(tooSmall)
    \/ \E outcome \in FetchOutcomes : FetchSettled(outcome)
    \/ \E result \in {"transcript", "empty", "rejected"} : JsonDone(result)
    \/ \E outcome \in {"ok", "rejected"} : TextDone(outcome)
    \/ \E outcome \in FetchOutcomes : ResetBufferDone(outcome)

\* The client alone, every await of it settling in the end.
ClientSpec == Init /\ [][ClientNext]_vars /\ WF_vars(ClientSettles)

\* -------------------------------------------------- format detection
\* The first bytes of a WebM (EBML), a WAV (RIFF....WAVE), an MP3 (frame
\* sync FF FB) and an unrecognizable body.
WebmSample == << 26, 69, 223, 163, 159, 66, 134, 129 >>
WavSample == << 82, 73, 70, 70, 36, 8, 0, 0, 87, 65, 86, 69 >>
Mp3Sample == << 255, 251, 144, 0, 0, 0, 0, 0 >>
JunkSample == << 0, 1, 2, 3, 4, 5, 6, 7 >>
Samples == {WebmSample, WavSample, Mp3Sample, JunkSample}

\* b with its i-th byte replaced by another value.
Corrupt(b, i) == [b EXCEPT ![i] = (b[i] + 1) % 256]

\* The buffers detectAudioFormat is called on: every sample cut after any
\* number of bytes, and every sample with one byte changed.
Buffers ==
    UNION { { SubSeq(b, 1, k) : k \in 0..Len(b) } : b \in Samples } \cup
        UNION { { Corrupt(b, i) : i \in 1..Len(b) } : b \in Samples }

\* detectAudioFormat of the direct server: 'webm' when the buffer is longer
\* than four bytes and starts with 1A 45 DF A3, and 'webm' as the fallback.
DetectAudioFormat(buffer) ==
    IF /\ Len(buffer) > 4
       /\ buffer[1] = 26
       /\ buffer[2] = 69
       /\ buffer[3] = 223
       /\ buffer[4] = 163
    THEN "webm"
    ELSE "webm"

\* The direct server before any request, about to detect the format of a
\* body.
DetectInit ==
    /\ previousAudioBuffer = Null
    /\ previousAudioBufferSize = 0
    /\ consecutiveEmptyResponses = 0
    /\ pc = [r \in Reqs |-> "new"]
    /\ combinedBuffer = [r \in Reqs |-> << >>]
    /\ files = [r \in Reqs |-> {}]
    /\ calls = [r \in Reqs |-> << >>]
    /\ results = [r \in Reqs |-> << >>]
    /\ last = NoLast
    /\ server = "direct"
    /\ call \in { [NoCall EXCEPT !.arg = b] : b \in Buffers }
    /\ process = "listening"
    /\ apiKey = "sk-key"
    /\ client = ClientIdle

\* `const format = detectAudioFormat(audioBuffer)`
Detect ==
    /\ call.fn = "none"
    /\ call' = [fn |-> "detectAudioFormat", arg |-> call.arg,
                ret |-> DetectAudioFormat(call.arg)]
    /\ UNCHANGED << serverVars, process, apiKey, client >>

DetectNext == Detect

DetectSpec == DetectInit /\ [][DetectNext]_vars

\* ------------------------------------------------------ createWavFile
\* Sample values are counted in units of 1 / Den, so that Den stands for
\* 1.0; NotANumber is the NaN a Float32Array may hold.
Den == 2
Sample(k) == [nan |-> FALSE, num |-> k]
NotANumber == [nan |-> TRUE, num |-> 0]

\* -1.5, -1, -0.5, 0, 0.5, 1, 1.5 and NaN.
SampleValues == { Sample(k) : k \in -3..3 } \cup {NotANumber}

RECURSIVE SampleSeqs(_)
\* The inputs of createWavFile of at most n samples.
SampleSeqs(n) ==
    IF n = 0 THEN { << >> }
    ELSE LET shorter == SampleSeqs(n - 1) IN
         shorter \cup { Append(q, v) : q \in { x \in shorter : Len(x) = n - 1 },
                                       v \in SampleValues }

\* DataView.setUint32(offset, v, true): four bytes, lowest first.
Uint32LE(v) ==
    << v % 256, (v \div 256) % 256, (v \div 65536) % 256,
       (v \div 16777216) % 256 >>

\* DataView.setUint16(offset, v, true)
Uint16LE(v) == LET u == v % 65536 IN << u % 256, u \div 256 >>

\* Mutant of Clamp: the sample is used as it is.
Clamp_None(s) == s

\* Math.max(-1, Math.min(1, audioBuffer[i])): NaN stays NaN.
Clamp(s) ==
    IF s.nan THEN s
    ELSE Sample(IF s.num > Den THEN Den ELSE IF s.num < -Den THEN -Den
                ELSE s.num)

\* `pcmData[i] = s < 0 ? s * 0x8000 : s * 0x7FFF` stored in an Int16Array:
\* NaN becomes 0, the product is truncated toward zero and wrapped to 16
\* bits.  The result is the stored bit pattern, 0..65535.
StoreInt16(s) ==
    IF s.nan THEN 0
    ELSE LET x == IF s.num < 0 THEN -((-s.num * 32768) \div Den)
                  ELSE (s.num * 32767) \div Den
         IN x % 65536

RECURSIVE PcmBytes(_)
\* new Uint8Array(pcmData.buffer): two bytes per sample, lowest first.
PcmBytes(samples) ==
    IF samples = << >> THEN << >>
    ELSE Uint16LE(StoreInt16(Clamp(Head(samples)))) \o PcmBytes(Tail(samples))

\* const SAMPLE_RATE
SAMPLE_RATE == 16000

\* createWavHeader(dataLength): the 44 header bytes.
CreateWavHeader(dataLength) ==
    << 82, 73, 70, 70 >> \o Uint32LE(36 + dataLength)
        \o << 87, 65, 86, 69 >> \o << 102, 109, 116, 32 >>
        \o Uint32LE(16) \o Uint16LE(1) \o Uint16LE(1)
        \o Uint32LE(SAMPLE_RATE) \o Uint32LE(SAMPLE_RATE * 2)
        \o Uint16LE(2) \o Uint16LE(16)
        \o << 100, 97, 116, 97 >> \o Uint32LE(dataLength)

\* createWavFile(audioBuffer): the header, then the samples.
CreateWavFile(audioBuffer) ==
    CreateWavHeader(Len(audioBuffer) * 2) \o PcmBytes(audioBuffer)

\* The client about to turn a buffer of samples into a WAV file.
WavInit ==
    /\ previousAudioBuffer = Null
    /\ previousAudioBufferSize = 0
    /\ consecutiveEmptyResponses = 0
    /\ pc = [r \in Reqs |-> "new"]
    /\ combinedBuffer = [r \in Reqs |-> << >>]
    /\ files = [r \in Reqs |-> {}]
    /\ calls = [r \in Reqs |-> << >>]
    /\ results = [r \in Reqs |-> << >>]
    /\ last = NoLast
    /\ server = "accumulating"
    /\ call \in { [NoCall EXCEPT !.arg = q] : q \in SampleSeqs(MaxSamples) }
    /\ process = "listening"
    /\ apiKey = "sk-key"
    /\ client = ClientIdle

\* `const wavData = createWavFile(mergedArray)`
CreateWav ==
    /\ call.fn = "none"
    /\ call' = [fn |-> "createWavFile", arg |-> call.arg,
                ret |-> CreateWavFile(call.arg)]
    /\ UNCHANGED << serverVars, process, apiKey, client >>

WavNext == CreateWav

WavSpec == WavInit /\ [][WavNext]_vars

\* ------------------------------------------------------ observations
\* The last step ended a handle call.
JustReturned == last.op = "audio"

\* ... one that made collaborator calls (its chunk was not skipped).
JustProcessed == JustReturned /\ last.calls # << >>

\* ... whose transcription attempt yielded empty text.
JustEmpty ==
    /\ JustProcessed
    /\ last.results[Len(last.results)] = "empty"

\* ... whose last transcription call failed.
JustFailed ==
    /\ JustProcessed
    /\ last.results[Len(last.results)] = "threw"

\* ... that returns a non-empty transcript.
JustText == JustReturned /\ last.res.transcript # << >>

ZeroAcc == Acc(Null, 0, 0)

\* ------------------------------------------------------------ claims
\* C1: a POST /audio whose body is shorter than minChunkBytes is answered
\* success with an empty transcript, makes no conversion and no
\* transcription call, and leaves previousAudioBuffer,
\* previousAudioBufferSize and consecutiveEmptyResponses as they were.
C1_SmallChunkLeavesState ==
    (JustReturned /\ last.len < MinChunkBytes) =>
        /\ last.res = OkResponse(<< >>)
        /\ last.calls = << >>
        /\ last.results = << >>
        /\ AccNow = last.before
        /\ \A r \in Reqs : r = last.req => pc[r] = "done" /\ files[r] = {}

\* A skipped chunk met a non-zero accumulator.
C1_Witness ==
    /\ JustReturned
    /\ last.len < MinChunkBytes
    /\ last.before.buf # Null
    /\ last.before.count > 0

\* C2: when a handle call returns a non-empty transcript, at the moment of
\* the response pending is null, its size 0 and the counter 0, on the
\* converted path and on the unconverted fallback alike.
C2_TextClearsState == JustText => AccNow = ZeroAcc

\* Text came back from the fallback while audio was buffered and the
\* counter was not 0.
C2_Witness ==
    /\ JustText
    /\ last.calls[Len(last.calls)] = "transcribe_webm"
    /\ last.before.buf # Null
    /\ last.before.count > 0

\* C3 as stated: every empty-yielding call adds exactly one to the counter,
\* which is reset to 0 only by the call after the one that brought it to
\* maxEmptyResponses.
C3_AsStated ==
    JustEmpty =>
        consecutiveEmptyResponses =
            IF last.before.count = MAX_EMPTY_RESPONSES THEN 0
            ELSE last.before.count + 1

\* C3 amended: every empty-yielding call adds exactly one to the counter,
\* except that the call which would bring it to maxEmptyResponses resets it
\* to 0 itself; the counter never holds maxEmptyResponses.
C3_CountStepsAndResets ==
    /\ consecutiveEmptyResponses \in 0..(MAX_EMPTY_RESPONSES - 1)
    /\ JustEmpty =>
           consecutiveEmptyResponses =
               IF last.before.count + 1 = MAX_EMPTY_RESPONSES THEN 0
               ELSE last.before.count + 1

\* An empty-yielding call found the counter one below the maximum.
C3_Witness ==
    /\ JustEmpty
    /\ last.before.count = MAX_EMPTY_RESPONSES - 1

\* C4: pendingSizeBytes never exceeds maxBufferBytes, and an empty-yielding
\* call whose combined buffer is not below the ceiling leaves pending null.
C4_PendingBounded ==
    /\ previousAudioBufferSize <= MAX_BUFFER_SIZE
    /\ ByteLength(previousAudioBuffer) <= MAX_BUFFER_SIZE
    /\ (JustEmpty /\ ByteLength(last.combined) >= MAX_BUFFER_SIZE) =>
           previousAudioBuffer = Null /\ previousAudioBufferSize = 0

\* An empty-yielding call dropped a combined buffer for its size alone.
C4_Witness ==
    /\ JustEmpty
    /\ ByteLength(last.combined) >= MAX_BUFFER_SIZE
    /\ consecutiveEmptyResponses > 0

\* C5: a reset leaves the accumulator as it is at process start, whatever
\* it was before, and a second reset changes nothing.
C5_ResetYieldsZero ==
    /\ last.op = "reset" => AccNow = ZeroAcc
    /\ OnReset(consecutiveEmptyResponses) = ZeroAcc
    /\ OnReset(OnReset(consecutiveEmptyResponses).count) =
           OnReset(consecutiveEmptyResponses)

\* A reset met a buffered chunk and a non-zero counter.
C5_Witness ==
    /\ last.op = "reset"
    /\ last.before.buf # Null
    /\ last.before.count > 0

\* C6 as stated: when a transcription call fails while a buffered chunk
\* is pending, the handle call returns the failure (success = false with an
\* error string) and pending is null with size 0 afterwards.
C6_AsStated ==
    ( /\ JustProcessed
      /\ Len(last.combined) > 1
      /\ \E i \in 1..Len(last.results) : last.results[i] = "threw" ) =>
        /\ last.res.success = FALSE
        /\ last.res.error # ""
        /\ previousAudioBuffer = Null
        /\ previousAudioBufferSize = 0

\* C7 as stated: after a handle call that ends in a hard failure of the
\* transcription collaborator the counter is 0.
C7_AsStated == JustFailed => consecutiveEmptyResponses = 0

\* C8 as stated: once a transcription call of a handle call has failed,
\* that handle call issues no further collaborator call.
C8_AsStated ==
    /\ \A r \in Reqs : \A i \in 1..Len(results[r]) :
           results[r][i] = "threw" => Len(calls[r]) <= i
    /\ \A i \in 1..Len(last.results) :
           last.results[i] = "threw" => Len(last.calls) <= i

\* C9: the handle call in which the counter reaches maxEmptyResponses
\* clears pending and resets the counter to 0 before it returns, whatever
\* the size of the combined buffer, and returns an empty transcript without
\* error; so three consecutive calls from the zero state that each yield a
\* conversion failure and an empty transcription end in the zero state.
C9_GiveUpClearsState ==
    (JustEmpty /\ last.before.count + 1 >= MAX_EMPTY_RESPONSES) =>
        /\ AccNow = ZeroAcc
        /\ last.res = OkResponse(<< >>)

\* The third of three consecutive calls, each with a failed conversion and
\* an empty transcription, has returned.
C9_Witness ==
    /\ JustEmpty
    /\ last.before.count = MAX_EMPTY_RESPONSES - 1
    /\ last.results = << "failed", "empty" >>
    /\ Len(last.combined) = 3
    /\ \A i \in 1..3 : last.combined[i].id = i
    /\ last.before.buf = SubSeq(last.combined, 1, 2)

\* The chunk a handler received: the newest chunk of its combined buffer.
CurrentBuffer(combined) == << combined[Len(combined)] >>

\* C10: the buffer a handle call submits is the chunk itself when pending
\* is null and otherwise pending followed by the chunk; after an
\* empty-yielding call with the counter below maxEmptyResponses and the
\* combined length below maxBufferBytes, pending is exactly that combined
\* buffer (so a second chunk is transcribed as chunk1 ++ chunk2).
C10_CombinedIsPendingThenChunk ==
    /\ [][ \A r \in Reqs :
             (pc[r] = "new" /\ pc'[r] = "convert") =>
                 /\ CurrentBuffer(combinedBuffer'[r])[1].id = r
                 /\ combinedBuffer'[r] =
                        IF previousAudioBuffer = Null
                        THEN CurrentBuffer(combinedBuffer'[r])
                        ELSE previousAudioBuffer
                                 \o CurrentBuffer(combinedBuffer'[r]) ]_vars
    /\ [] ( ( /\ JustEmpty
              /\ last.before.count + 1 < MAX_EMPTY_RESPONSES
              /\ ByteLength(last.combined) < MAX_BUFFER_SIZE ) =>
                /\ previousAudioBuffer = last.combined
                /\ previousAudioBufferSize = ByteLength(last.combined) )

\* Chunk 1 yielded empty text and was buffered; chunk 2 was transcribed
\* together with it and "hello" has been returned.
C10_Witness ==
    /\ JustText
    /\ last.res.transcript = << "h", "e", "l", "l", "o" >>
    /\ Len(last.combined) = 2
    /\ last.combined[1].id = 1
    /\ last.combined[2].id = 2
    /\ last.before.buf = << last.combined[1] >>
    /\ AccNow = ZeroAcc

\* A handle call is in flight: suspended at the conversion await or at a
\* transcription await, between its read of previousAudioBuffer and its
\* final write of the state.
InFlight(r) == pc[r] \in {"convert", "curl_mp3", "curl_webm"}

\* C11 as stated: handle and reset are serialized - at most one handle call
\* is in flight at any time, and a reset is never applied while a handle
\* call is in flight.
C11_AsStated ==
    /\ Cardinality({r \in Reqs : InFlight(r)}) <= 1
    /\ last.op = "reset" => \A r \in Reqs : ~InFlight(r)

\* C12: in every reachable state, the states at the await points of
\* in-flight handle calls included, previousAudioBuffer = null implies
\* previousAudioBufferSize = 0, and a non-null previousAudioBuffer has
\* previousAudioBufferSize equal to its byte length.
C12_SizeMatchesBuffer ==
    /\ previousAudioBuffer = Null => previousAudioBufferSize = 0
    /\ previousAudioBuffer # Null =>
           previousAudioBufferSize = ByteLength(previousAudioBuffer)

\* A handle call is suspended at an await while two chunks are pending.
C12_Witness ==
    /\ \E r \in Reqs : InFlight(r)
    /\ Len(previousAudioBuffer) = 2
    /\ previousAudioBufferSize = 2 * MinChunkBytes

\* The call logs the state shows: those of the handle calls in flight and
\* that of the handle call that has just returned.
CallLogs ==
    { << calls[r], results[r] >> : r \in Reqs } \cup
        { << last.calls, last.results >> }

\* C13 as stated: the first collaborator call of a handle call is the
\* transcription of the combined buffer in its own format, and the
\* conversion is invoked only after a transcription that returned empty
\* text.
C13_AsStated ==
    \A log \in CallLogs :
        /\ log[1] # << >> => log[1][1] = "transcribe_webm"
        /\ \A i \in 1..Len(log[1]) :
               log[1][i] = "convert" => i > 1 /\ log[2][i - 1] = "empty"

\* C13, amended: the first collaborator call of a handle call is the
\* conversion; the converted buffer is transcribed only after the
\* conversion succeeded; the combined buffer is transcribed in its own
\* format only after the conversion failed or the transcription of the
\* converted buffer failed; the conversion is never invoked after a
\* transcription call.
C13_ConversionFirst ==
    \A log \in CallLogs :
        /\ log[1] # << >> => log[1][1] = "convert"
        /\ \A i \in 1..Len(log[1]) :
               /\ log[1][i] = "convert" => i = 1
               /\ log[1][i] = "transcribe_mp3" => i = 2 /\ log[2][1] = "ok"
               /\ log[1][i] = "transcribe_webm" =>
                      i > 1 /\ log[2][i - 1] \in {"failed", "threw"}

\* A handle call converted, had the transcription of the .mp3 file fail,
\* and returned the text recognized in the .webm file.
C13_Witness ==
    /\ JustText
    /\ last.calls = << "convert", "transcribe_mp3", "transcribe_webm" >>
    /\ last.results = << "ok", "threw", "text" >>

\* C14 as stated: a handle call whose conversion failed does the
\* empty-result bookkeeping (counter incremented, or reset on reaching
\* maxEmptyResponses; the combined buffer carried forward or cleared) and
\* answers an empty transcript without error, whatever else happens.
C14_AsStated ==
    ( /\ JustProcessed
      /\ last.results[1] = "failed" ) =>
        /\ last.res = OkResponse(<< >>)
        /\ consecutiveEmptyResponses \in {last.before.count + 1, 0}
        /\ previousAudioBuffer \in {last.combined, Null}

\* C14, amended: a conversion failure is never returned as such; the handle
\* call transcribes the combined buffer in its own format instead, and that
\* transcription decides the call: empty text gives the empty-result
\* bookkeeping and an empty transcript without error, text is returned as
\* on the success path, and a failure of that transcription is returned as
\* the error of the call.
C14_FallbackDecides ==
    ( /\ JustProcessed
      /\ last.results[1] = "failed" ) =>
        LET c == last.before.count + 1
            outcome == last.results[2]
        IN
        /\ last.calls = << "convert", "transcribe_webm" >>
        /\ outcome \in {"empty", "text", "threw"}
        /\ outcome = "empty" =>
               /\ last.res = OkResponse(<< >>)
               /\ consecutiveEmptyResponses =
                      IF c >= MAX_EMPTY_RESPONSES THEN 0 ELSE c
               /\ previousAudioBuffer =
                      IF c < MAX_EMPTY_RESPONSES
                         /\ ByteLength(last.combined) < MAX_BUFFER_SIZE
                      THEN last.combined ELSE Null
        /\ outcome = "text" =>
               /\ last.res.success
               /\ HasTranscript(last.res.transcript)
               /\ AccNow = ZeroAcc
        /\ outcome = "threw" =>
               /\ last.res = ErrorResponse("Failed to transcribe audio")
               /\ previousAudioBuffer = Null

\* The conversion failed and the call returned the text recognized in the
\* combined .webm buffer of two chunks.
C14_Witness ==
    /\ JustText
    /\ last.results = << "failed", "text" >>
    /\ Len(last.combined) = 2

\* The handler of request r is suspended at a collaborator call of either
\* server: the body has been received and no response written yet.
Awaiting(r) == InFlight(r) \/ pc[r] = "axios"

\* Every request whose body has been received is answered in the end.
EventuallyAnswered == \A r \in Reqs : Awaiting(r) ~> (pc[r] = "done")

\* A response is written exactly by the step that ends the handler of its
\* request, and an ended handler takes no further step: no handler ends
\* without a response and none writes two.
OneResponse ==
    [][ /\ \A r \in Reqs : pc[r] = "done" => pc'[r] = "done"
        /\ \A r \in Reqs :
               (pc[r] # "done" /\ pc'[r] = "done") =>
                   /\ last'.op = "audio"
                   /\ last'.req = r
                   /\ last'.res.status \in {200, 500}
        /\ last'.op = "audio" =>
               /\ pc[last'.req] # "done"
               /\ pc'[last'.req] = "done" ]_vars

\* An error response carrying an error string.
IsErrorResponse(rs) ==
    /\ rs.status = 500
    /\ ~rs.success
    /\ rs.error # ""

\* A success response carrying transcript t.
IsSuccessWith(rs, t) == rs = OkResponse(t)

\* C15 as stated: every POST /audio whose body has been received gets
\* exactly one response in the end, provided the collaborator calls return
\* or fail; the response is a success carrying recognized text or the
\* empty string, or an error carrying an error string.
C15_AsStated ==
    /\ EventuallyAnswered
    /\ OneResponse
    /\ [] ( JustReturned =>
              \/ \E t \in Texts : IsSuccessWith(last.res, t)
              \/ IsErrorResponse(last.res) )

\* C15, amended: ... the response is a success carrying recognized text,
\* the empty string (accumulating server) or the placeholder
\* 'No transcription available' (direct server, which never answers the
\* empty string), or an error carrying an error string.
C15_ExactlyOneResponse ==
    /\ EventuallyAnswered
    /\ OneResponse
    /\ [] ( JustReturned =>
              \/ \E t \in Texts :
                     /\ IsSuccessWith(last.res, t)
                     /\ server = "direct" => t # << >>
              \/ /\ server = "direct"
                 /\ IsSuccessWith(last.res, NoTranscription)
              \/ IsErrorResponse(last.res) )

\* Every request to the direct server has been answered, the last one with
\* the placeholder.
C15_Witness ==
    /\ server = "direct"
    /\ \A r \in Reqs : pc[r] = "done"
    /\ JustReturned
    /\ last.res = OkResponse(NoTranscription)

\* C16 as stated: in either server a transcription that completes without
\* failure and recognizes no text is answered success = true with the
\* empty string as transcript, and success = false is answered only when a
\* collaborator call failed.
C16_AsStated ==
    /\ JustEmpty => last.res = OkResponse(<< >>)
    /\ (JustReturned /\ ~last.res.success) => JustFailed

\* C16, amended: ... is answered success = true, with the empty string as
\* transcript in the accumulating server and with the placeholder
\* 'No transcription available' in the direct server; success = false is
\* answered only when a collaborator call failed.
C16_EmptyIsSuccess ==
    /\ JustEmpty =>
           last.res = OkResponse(IF server = "direct"
                                 THEN NoTranscription ELSE << >>)
    /\ (JustReturned /\ ~last.res.success) => JustFailed

\* The direct server has answered its first request, in which the API
\* recognized no text.
C16_Witness ==
    /\ server = "direct"
    /\ JustEmpty
    /\ last.req = 1
    /\ last.res.success
    /\ last.res.transcript = NoTranscription

\* C17: the accumulator is all-zero at process start and is changed only
\* by the steps of POST /audio handlers and by POST /reset; OPTIONS
\* requests, GET / and /index.html and every request answered 404 leave
\* the three state variables unchanged, and only POST /audio and
\* POST /reset reach the two branches that write them.
C17_OnlyHandleAndResetWrite ==
    /\ [] ( ( /\ \A r \in Reqs : pc[r] = "new"
              /\ last.op = "none" ) => AccNow = ZeroAcc )
    /\ [][ accState' # accState => last'.op \in {"audio", "reset"} ]_vars
    /\ [] ( last.op = "other" => AccNow = last.before )
    /\ [] ( \A m \in Methods, u \in Urls :
              /\ Route(m, u) = "audio" <=> (m = "POST" /\ u = "/audio")
              /\ Route(m, u) = "reset" <=> (m = "POST" /\ u = "/reset") )

\* Two chunks are pending when a request is answered 404.
C17_Witness ==
    /\ last.op = "other"
    /\ last.res.status = 404
    /\ Len(previousAudioBuffer) = 2
    /\ consecutiveEmptyResponses = 2

\* How many of the calls of cs are of a kind in kinds.
CountCalls(cs, kinds) == Cardinality({i \in 1..Len(cs) : cs[i] \in kinds})

\* C18: a handle call invokes the conversion at most once and the
\* transcription at most twice, one call after the other: a call is issued
\* only when the outcome of the one before is in.
C18_CallsBounded ==
    \A log \in CallLogs :
        /\ CountCalls(log[1], {"convert"}) <= 1
        /\ CountCalls(log[1], {"transcribe_mp3", "transcribe_webm"}) <= 2
        /\ Len(log[1]) - Len(log[2]) \in {0, 1}

\* A handle call has made its conversion and both transcription calls, and
\* both transcriptions failed.
C18_Witness ==
    /\ JustFailed
    /\ last.calls = << "convert", "transcribe_mp3", "transcribe_webm" >>
    /\ last.results = << "ok", "threw", "threw" >>

\* C19 as stated, for the step that follows a reset: every buffer an
\* in-flight handler holds at a reset was received before it, so the next
\* step neither issues a transcription call for such a handler nor stores
\* anything but null in previousAudioBuffer (a request arriving in that
\* step combines its chunk with the null the reset left).
C19_AsStated ==
    [][ last.op = "reset" =>
          /\ \A r \in Reqs :
                 InFlight(r) => CountCalls(calls'[r], {"transcribe_mp3",
                                                       "transcribe_webm"})
                                  = CountCalls(calls[r], {"transcribe_mp3",
                                                          "transcribe_webm"})
          /\ previousAudioBuffer' = Null ]_vars

\* The handle calls the state shows whose combined buffer holds the chunk
\* of request c: those in flight and the one that has just returned.
CallsHolding(c) ==
    Cardinality({r \in Reqs : \E i \in 1..Len(combinedBuffer[r]) :
                                  combinedBuffer[r][i].id = c})
        + (IF \E i \in 1..Len(last.combined) : last.combined[i].id = c
           THEN 1 ELSE 0)

\* C20 as stated: the bytes of one chunk are submitted in at most
\* maxEmptyResponses handle calls (here: no more than that many of the
\* handle calls the state shows hold the chunk), and pending never holds
\* more than maxEmptyResponses - 1 chunks.
C20_AsStated ==
    /\ \A c \in Reqs : CallsHolding(c) <= MAX_EMPTY_RESPONSES
    /\ Len(previousAudioBuffer) <= MAX_EMPTY_RESPONSES - 1

\* buffer starts with the bytes of marker.
StartsWith(buffer, marker) ==
    /\ Len(buffer) >= Len(marker)
    /\ SubSeq(buffer, 1, Len(marker)) = marker

\* The format whose magic marker is at the start of the buffer: RIFF....WAVE
\* is WAV, the eleven set bits of an MP3 frame sync are MP3, 1A 45 DF A3 is
\* WebM, and anything else is the default.
MarkedFormat(buffer) ==
    IF /\ StartsWith(buffer, << 82, 73, 70, 70 >>)
       /\ Len(buffer) >= 12
       /\ SubSeq(buffer, 9, 12) = << 87, 65, 86, 69 >>
    THEN "wav"
    ELSE IF Len(buffer) >= 2 /\ buffer[1] = 255 /\ buffer[2] >= 224
    THEN "mp3"
    ELSE IF StartsWith(buffer, << 26, 69, 223, 163 >>)
    THEN "webm"
    ELSE "webm"

\* C21 as stated: format detection returns the format whose magic marker
\* is at the start of the buffer, and the default only when no marker
\* matches.
C21_AsStated ==
    call.fn = "detectAudioFormat" => call.ret = MarkedFormat(call.arg)

\* C22: when OPENAI_API_KEY is missing the process never listens - it is
\* still in its startup code or has exited - so no request is handled and
\* no response, in particular no failure response, is ever written.
C22_MissingKeyNeverServes ==
    apiKey = Undefined =>
        /\ process \in {"starting", "exited"}
        /\ \A r \in Reqs : pc[r] = "new"
        /\ last = NoLast
        /\ AccNow = ZeroAcc

\* A process started without the key has exited.
C22_Witness ==
    /\ apiKey = Undefined
    /\ process = "exited"

\* C23: in every state between handler steps, under any interleaving of
\* POST /audio and POST /reset handlers, consecutiveEmptyResponses is at
\* least 0 and below MAX_EMPTY_RESPONSES.
C23_CounterBelowMax ==
    /\ consecutiveEmptyResponses >= 0
    /\ consecutiveEmptyResponses < MAX_EMPTY_RESPONSES

\* The counter stands at MAX_EMPTY_RESPONSES - 1 after the empty result of
\* a handle call that overlapped with one still suspended at its await.
C23_Witness ==
    /\ JustEmpty
    /\ consecutiveEmptyResponses = MAX_EMPTY_RESPONSES - 1
    /\ \E r \in Reqs : InFlight(r) /\ r < last.req

\* C24: the WAV client has at most one POST /audio in flight; a request
\* goes out only in a step that finds isProcessing false and sets it, the
\* flag is set as long as the request is in flight, it is false again
\* whenever sendAudioChunk has run to its end, and once set it does not
\* stay set forever.
C24_OneRequestInFlight ==
    /\ [] ( client.inFlight <= 1 )
    /\ [][ client'.inFlight > client.inFlight =>
               ~client.isProcessing /\ client'.isProcessing ]_vars
    /\ [] ( client.inFlight > 0 => client.isProcessing )
    /\ [] ( client.pc = "idle" <=> ~client.isProcessing )
    /\ ( client.isProcessing ~> ~client.isProcessing )

\* The fifth empty response in a row has arrived and the client waits for
\* the reset it sent, isProcessing still set.
C24_Witness ==
    /\ client.pc = "reset"
    /\ client.isProcessing
    /\ client.inFlight = 0
    /\ client.emptyResponseCount = ClientMaxEmpty

\* C25 as stated: when the handling of a POST /audio request has finished,
\* on the success, the empty and the failure path alike, every temporary
\* file its handler wrote has been deleted.
C25_AsStated == \A r \in Reqs : pc[r] = "done" => files[r] = {}

\* The unsigned 32-bit number in the four bytes of b from index i on.
ReadUint32(b, i) ==
    b[i] + 256 * b[i + 1] + 65536 * b[i + 2] + 16777216 * b[i + 3]

\* The signed 16-bit number in the two bytes of b from index i on.
ReadInt16(b, i) ==
    LET u == b[i] + 256 * b[i + 1] IN IF u >= 32768 THEN u - 65536 ELSE u

\* C26: for an input of n samples createWavFile returns exactly 44 + 2n
\* bytes, the header declares a RIFF size of 36 + 2n and a data length of
\* 2n, and every sample is clamped to [-1, 1] before it is scaled: a
\* sample of 1 or more is stored as 32767, one of -1 or less as -32768,
\* one in between keeps its sign, and every stored value lies in
\* -32768..32767.
C26_WavLayout ==
    call.fn = "createWavFile" =>
        LET n == Len(call.arg)
            out == call.ret
        IN
        /\ Len(out) = 44 + 2 * n
        /\ ReadUint32(out, 5) = 36 + 2 * n
        /\ ReadUint32(out, 41) = 2 * n
        /\ \A i \in 1..n :
               LET v == ReadInt16(out, 43 + 2 * i)
                   s == call.arg[i]
               IN
               /\ v \in -32768..32767
               /\ ~s.nan =>
                      /\ s.num >= Den => v = 32767
                      /\ s.num <= -Den => v = -32768
                      /\ (s.num >= 0 /\ s.num < Den) => (v >= 0 /\ v < 32767)
                      /\ (s.num < 0 /\ s.num > -Den) => (v < 0 /\ v > -32768)

\* A file made of a sample above 1, a sample below -1 and a NaN.
C26_Witness ==
    /\ call.fn = "createWavFile"
    /\ call.arg = << Sample(3), Sample(-3), NotANumber >>
    /\ Len(call.ret) = 50

=============================================================================
